---- MODULE Spec2Model ----
(***************************************************************************)
(* Model of app.py: the Flask ingestion service of the smart wheelchair.   *)
(*                                                                         *)
(*   POST /api/data    receive_data     validate, evaluate, insert, notify *)
(*   GET  /            dashboard        last 100 rows, rendered            *)
(*   GET  /api/latest  get_latest_data  last 100 rows, as JSON             *)
(*                                                                         *)
(* Requests are served one at a time.  receive_data is split at its two    *)
(* external calls (the database insert, the Twilio send); the two reads    *)
(* are one step each.  The variables below the line are the locals and the *)
(* response of the request being served, kept until the next one starts.   *)
(***************************************************************************)
EXTENDS Integers, Sequences, FiniteSets

VARIABLES
    store,           \* table wheelchair_data, rows in insertion order
    nextId,          \* the SERIAL sequence behind column id
    clock,           \* the database's CURRENT_TIMESTAMP
    module_conn,     \* the module-level `conn` of the startup block
    leaked,          \* connections no name refers to, not yet finalised
    config,          \* which of the Twilio settings are set (truthy)
    inputs,          \* which payloads the device sends
    remaining,       \* readings the device still has to post
    \* ------------------------------------------------------------------
    route,           \* route of the request served last
    pc,              \* position inside receive_data, "idle" between requests
    data,            \* request.get_json()
    alert_messages,  \* the local list of receive_data
    conn,            \* the local `conn`: "none" or "open"
    insert,          \* "none", "failed" (except branch) or "committed"
    read,            \* "none", "failed" (except branch) or "fetched"
    dispatched,      \* calls of send_whatsapp_alert in this request
    created,         \* calls of twilio_client.messages.create in this request
    status,          \* HTTP status of the response, 0 while none
    body,            \* message of the response
    rows,            \* the rows handed to the template / the "data" list
    before           \* the table when the request arrived

vars == <<store, nextId, clock, module_conn, leaked, config, inputs, remaining,
          route, pc, data, alert_messages, conn, insert, read, dispatched,
          created, status, body, rows, before>>

----------------------------------------------------------------------------
(* Bounds of the exploration *)

MaxRequests == 2
MaxClock == 1
MaxConns == 3

(* Literals of the source *)

TILT_LIMIT == 10
GAS_LIMIT == 100
UV_LIMIT == 3
LIMIT == 100

----------------------------------------------------------------------------
(* JSON values as Python sees them.  k is the Python type of the value:    *)
(* "none" (key absent or null), "num" (finite int/float v), "nan", "inf"   *)
(* (v is the sign), "str", "bool" (v is 1 for True).                       *)

Num(n) == [k |-> "num", v |-> n]
None == [k |-> "none", v |-> 0]
NaN == [k |-> "nan", v |-> 0]
Inf == [k |-> "inf", v |-> 1]
Str == [k |-> "str", v |-> 0]
Bool(b) == [k |-> "bool", v |-> IF b THEN 1 ELSE 0]

RequiredFields == {"pitch", "roll", "gasLevel", "uvIndex"}

(* abs(x) > c for a value that is not a str *)
AbsGt(x, c) ==
    CASE x.k = "num" -> (IF x.v < 0 THEN 0 - x.v ELSE x.v) > c
      [] x.k = "inf" -> TRUE
      [] OTHER -> FALSE

(* x > c for a value that is not a str *)
Gt(x, c) ==
    CASE x.k = "num" -> x.v > c
      [] x.k = "inf" -> x.v > 0
      [] OTHER -> FALSE

(* abs(), > and the format spec .2f raise on a str and on None *)
TypeRaises(x) == x.k \in {"str", "none"}

(* `if not data`: None or an empty dict *)
NoData(d) == \A f \in DOMAIN d : d[f].k = "none"

(* Variant: the check forgets uv_index *)
MissingRequired_NoUv(d) ==
    \/ d.pitch.k = "none"
    \/ d.roll.k = "none"
    \/ d.gasLevel.k = "none"

(* `None in [pitch, roll, gas_level, uv_index]` *)
MissingRequired(d) ==
    \/ d.pitch.k = "none"
    \/ d.roll.k = "none"
    \/ d.gasLevel.k = "none"
    \/ d.uvIndex.k = "none"

(* data.get("alertFlag", False), as the truth value `if alert_flag` sees *)
AlertFlag(d) == d.alertFlag.k = "bool" /\ d.alertFlag.v = 1

(* Variant: the tilt test without abs() *)
HighTilt_Signed(pitch, roll) == Gt(pitch, TILT_LIMIT) \/ Gt(roll, TILT_LIMIT)

(* The conditions of lines 79, 81 and 83. *)
HighTilt(pitch, roll) == AbsGt(pitch, TILT_LIMIT) \/ AbsGt(roll, TILT_LIMIT)
HighGas(gas_level) == Gt(gas_level, GAS_LIMIT)
HighUV(uv_index) == Gt(uv_index, UV_LIMIT)

(* The evaluation raises TypeError/ValueError: `or` evaluates abs(roll)    *)
(* only when the pitch test is false, the f-string formats both.           *)
EvaluationRaises(d) ==
    \/ TypeRaises(d.pitch)
    \/ (~AbsGt(d.pitch, TILT_LIMIT) /\ TypeRaises(d.roll))
    \/ (HighTilt(d.pitch, d.roll) /\ (TypeRaises(d.pitch) \/ TypeRaises(d.roll)))
    \/ TypeRaises(d.gasLevel)
    \/ TypeRaises(d.uvIndex)

Entry(kind, args) == [kind |-> kind, args |-> args]

(* alert_messages after line 86 *)
AlertMessages(d) ==
    (IF HighTilt(d.pitch, d.roll)
        THEN <<Entry("High Tilt", <<d.pitch, d.roll>>)>> ELSE <<>>)
    \o (IF HighGas(d.gasLevel)
        THEN <<Entry("High Gas Level", <<d.gasLevel>>)>> ELSE <<>>)
    \o (IF HighUV(d.uvIndex)
        THEN <<Entry("High UV Index", <<d.uvIndex>>)>> ELSE <<>>)
    \o (IF AlertFlag(d)
        THEN <<Entry("ESP32 Alert Triggered", <<>>)>> ELSE <<>>)

----------------------------------------------------------------------------
(* The database *)

(* The value bound to the fifth %s of the INSERT *)
InsertedAlert(d, msgs) == AlertFlag(d)

(* The row the INSERT writes; id and timestamp are column defaults *)
Row(d, msgs, id, ts) ==
    [id |-> id, pitch |-> d.pitch, roll |-> d.roll, gas_level |-> d.gasLevel,
     uv_index |-> d.uvIndex, alert |-> InsertedAlert(d, msgs), timestamp |-> ts]

(* How the with block of the insert ends *)
InsertOutcomes == {"connect_failed", "execute_failed", "commit_failed", "committed"}

(* Variant: the row survives a failed commit *)
TableAfter_Partial(st, row, outcome) ==
    IF outcome \in {"commit_failed", "committed"} THEN Append(st, row) ELSE st

(* The table after the with block: the row is there only once committed *)
TableAfter(st, row, outcome) ==
    IF outcome = "committed" THEN Append(st, row) ELSE st

(* nextval is taken by the INSERT and not given back by a rollback *)
SequenceAfter(id, outcome) ==
    IF outcome \in {"commit_failed", "committed"} THEN id + 1 ELSE id

OpenConnections ==
    (IF module_conn = "open" THEN 1 ELSE 0) + leaked + (IF conn = "open" THEN 1 ELSE 0)

(* psycopg2.connect succeeds only while the server has a free slot *)
CanConnect == OpenConnections < MaxConns

(* SELECT * ... ORDER BY timestamp DESC LIMIT 100: every order of the rows *)
(* with non-increasing timestamps; rows of equal timestamp come in any     *)
(* order.                                                                  *)
Select(st) ==
    LET n == Len(st)
        m == IF n < LIMIT THEN n ELSE LIMIT
        Orders == {p \in [1..n -> 1..n] :
                      /\ \A i, j \in 1..n : i # j => p[i] # p[j]
                      /\ \A i, j \in 1..n :
                            i < j => st[p[i]].timestamp >= st[p[j]].timestamp}
    IN  {[i \in 1..m |-> st[p[i]]] : p \in Orders}

(* The dict built per row by get_latest_data *)
ToDict(row) ==
    [id |-> row.id, pitch |-> row.pitch, roll |-> row.roll,
     gas_level |-> row.gas_level, uv_index |-> row.uv_index,
     alert |-> row.alert, timestamp |-> row.timestamp]

(* How the with block of a read ends: connect raised, execute or fetchall  *)
(* raised, or the rows were fetched.                                       *)
ReadOutcomes == {"connect_failed", "execute_failed", "fetched"}

(* Variant: the except branch answers like the dashboard's fallback *)
LatestResponse_Quiet(ok, fetched) ==
    IF ok THEN [status |-> 200, data |-> [i \in 1..Len(fetched) |-> ToDict(fetched[i])]]
          ELSE [status |-> 200, data |-> <<>>]

(* What get_latest_data returns: jsonify({"data": ...}) and its status *)
LatestResponse(ok, fetched) ==
    IF ok THEN [status |-> 200, data |-> [i \in 1..Len(fetched) |-> ToDict(fetched[i])]]
          ELSE [status |-> 500, data |-> <<>>]

(* What dashboard hands to render_template *)
DashboardRows(ok, fetched) == IF ok THEN fetched ELSE <<>>

----------------------------------------------------------------------------
(* Twilio *)

(* all([twilio_client, TWILIO_WHATSAPP_NUMBER, ALERT_PHONE_NUMBER]) *)
Configured(c) == c.twilio_client /\ c.TWILIO_WHATSAPP_NUMBER /\ c.ALERT_PHONE_NUMBER

(* Outcomes of twilio_client.messages.create: it returns, raises           *)
(* TwilioRestException (the provider answered with an error), or raises    *)
(* the HTTP library's exception (the provider was not reached).            *)
CreateOutcomes == {"sent", "rest_error", "transport_error"}

(* send_whatsapp_alert returns unless the exception is not the one caught *)
SendReturns(outcome) == outcome # "transport_error"

(* Variant: the send is not guarded by `if alert_messages` *)
DispatchCalls_Always(msgs) == 1

(* Calls of send_whatsapp_alert made by lines 101-103 *)
DispatchCalls(msgs) == IF msgs # <<>> THEN 1 ELSE 0

----------------------------------------------------------------------------
(* Payloads the device sends *)

FieldValues(which, f) ==
    IF which = "full"
    THEN CASE f = "pitch" -> {None, Num(0 - 11), Num(10), Num(11), Str}
           [] f = "roll" -> {None, Num(10), Num(11)}
           [] f = "gasLevel" -> {None, Num(100), Num(101), Inf}
           [] f = "uvIndex" -> {None, Num(3), Num(4), NaN}
           [] OTHER -> {None, Bool(FALSE), Bool(TRUE)}
    ELSE CASE f = "pitch" -> {None, Num(10), Num(0 - 11)}
           [] f = "roll" -> {Num(0)}
           [] f = "gasLevel" -> {Num(100)}
           [] f = "uvIndex" -> {Num(3)}
           [] OTHER -> {None, Bool(TRUE)}

Payloads(which) ==
    [pitch : FieldValues(which, "pitch"), roll : FieldValues(which, "roll"),
     gasLevel : FieldValues(which, "gasLevel"), uvIndex : FieldValues(which, "uvIndex"),
     alertFlag : FieldValues(which, "alertFlag")]

Configs ==
    [twilio_client : BOOLEAN, TWILIO_WHATSAPP_NUMBER : BOOLEAN, ALERT_PHONE_NUMBER : BOOLEAN]

----------------------------------------------------------------------------
(* State after the module is loaded: the table exists and the connection   *)
(* of the startup block is still bound to the module-level name conn.      *)

Started ==
    /\ store = <<>>
    /\ nextId = 1
    /\ clock = 0
    /\ module_conn = "open"
    /\ leaked = 0
    /\ config \in Configs
    /\ route = "none"
    /\ pc = "idle"
    /\ data = [f \in RequiredFields \cup {"alertFlag"} |-> None]
    /\ alert_messages = <<>>
    /\ conn = "none"
    /\ insert = "none"
    /\ read = "none"
    /\ dispatched = 0
    /\ created = 0
    /\ status = 0
    /\ body = ""
    /\ rows = <<>>
    /\ before = <<>>

Init ==
    /\ Started
    /\ inputs = "tilt"
    /\ remaining = MaxRequests

InitFull ==
    /\ Started
    /\ inputs = "full"
    /\ remaining = 1

(* The handler returns and its locals go.  No line closes the connection   *)
(* (the with block of psycopg2 ends the transaction only), so one that was *)
(* opened is finalised at once or stays open until it is collected.        *)
Return(opened) ==
    /\ pc' = "idle"
    /\ conn' = "none"
    /\ \E n \in (IF opened THEN {0, 1} ELSE {0}) : leaked' = leaked + n

Respond(code, msg) ==
    /\ status' = code
    /\ body' = msg

(* receive_data, lines 62-86 *)
receive_data(d) ==
    /\ pc = "idle"
    /\ remaining > 0
    /\ remaining' = remaining - 1
    /\ route' = "/api/data"
    /\ data' = d
    /\ before' = store
    /\ rows' = <<>>
    /\ insert' = "none"
    /\ read' = "none"
    /\ dispatched' = 0
    /\ created' = 0
    /\ conn' = "none"
    /\ leaked' = leaked
    /\ IF NoData(d)
         THEN Respond(400, "No data provided") /\ alert_messages' = <<>> /\ pc' = "idle"
       ELSE IF MissingRequired(d)
         THEN Respond(400, "Missing required sensor data")
              /\ alert_messages' = <<>> /\ pc' = "idle"
       ELSE IF EvaluationRaises(d)
         THEN Respond(500, "Internal Server Error")
              /\ alert_messages' = <<>> /\ pc' = "idle"
       ELSE Respond(0, "") /\ alert_messages' = AlertMessages(d) /\ pc' = "store"
    /\ UNCHANGED <<store, nextId, clock, module_conn, config, inputs>>

(* receive_data, lines 88-98 *)
receive_data_insert(outcome) ==
    /\ pc = "store"
    /\ outcome \in InsertOutcomes
    /\ outcome # "connect_failed" => CanConnect
    /\ store' = TableAfter(store, Row(data, alert_messages, nextId, clock), outcome)
    /\ nextId' = SequenceAfter(nextId, outcome)
    /\ IF outcome = "committed"
         THEN /\ insert' = "committed"
              /\ conn' = "open"
              /\ pc' = "notify"
              /\ UNCHANGED <<status, body, leaked>>
         ELSE /\ insert' = "failed"
              /\ Respond(500, "Database insertion failed")
              /\ Return(outcome # "connect_failed")
    /\ UNCHANGED <<clock, module_conn, config, inputs, remaining, route, data,
                   alert_messages, read, dispatched, created, rows, before>>

(* receive_data, lines 100-105, with send_whatsapp_alert, lines 29-41 *)
receive_data_notify(outcome) ==
    /\ pc = "notify"
    /\ outcome \in CreateOutcomes \cup {"not_called"}
    /\ outcome = "not_called" <=> (DispatchCalls(alert_messages) = 0 \/ ~Configured(config))
    /\ dispatched' = dispatched + DispatchCalls(alert_messages)
    /\ created' = created + (IF outcome = "not_called" THEN 0 ELSE 1)
    /\ IF SendReturns(outcome)
         THEN Respond(200, "Data stored successfully")
         ELSE Respond(500, "Internal Server Error")
    /\ Return(TRUE)
    /\ UNCHANGED <<store, nextId, clock, module_conn, config, inputs, remaining, route,
                   data, alert_messages, insert, read, rows, before>>

(* The locals of a read request *)
ReadRequest(path, outcome) ==
    /\ pc = "idle"
    /\ outcome \in ReadOutcomes
    /\ outcome # "connect_failed" => CanConnect
    /\ read' = (IF outcome = "fetched" THEN "fetched" ELSE "failed")
    /\ route' = path
    /\ data' = [f \in RequiredFields \cup {"alertFlag"} |-> None]
    /\ alert_messages' = <<>>
    /\ insert' = "none"
    /\ dispatched' = 0
    /\ created' = 0
    /\ before' = store
    /\ UNCHANGED <<store, nextId, clock, module_conn, config, inputs, remaining>>

(* dashboard, lines 109-118 *)
dashboard(outcome) ==
    /\ ReadRequest("/", outcome)
    /\ \E fetched \in Select(store) : rows' = DashboardRows(outcome = "fetched", fetched)
    /\ Respond(200, "index.html")
    /\ Return(outcome # "connect_failed")

(* get_latest_data, lines 122-144 *)
get_latest_data(outcome) ==
    /\ ReadRequest("/api/latest", outcome)
    /\ \E fetched \in Select(store) :
          /\ rows' = LatestResponse(outcome = "fetched", fetched).data
          /\ Respond(LatestResponse(outcome = "fetched", fetched).status, "data")
    /\ Return(outcome # "connect_failed")

(* The garbage collector finalises a connection nothing refers to *)
Finalize ==
    /\ leaked > 0
    /\ leaked' = leaked - 1
    /\ UNCHANGED <<store, nextId, clock, module_conn, config, inputs, remaining, route,
                   pc, data, alert_messages, conn, insert, read, dispatched, created,
                   status, body, rows, before>>

(* Time passes at the database *)
Tick ==
    /\ clock < MaxClock
    /\ clock' = clock + 1
    /\ UNCHANGED <<store, nextId, module_conn, leaked, config, inputs, remaining, route,
                   pc, data, alert_messages, conn, insert, read, dispatched, created,
                   status, body, rows, before>>

Next ==
    \/ \E d \in Payloads(inputs) : receive_data(d)
    \/ \E o \in InsertOutcomes : receive_data_insert(o)
    \/ \E o \in CreateOutcomes : receive_data_notify(o)
    \/ \E o \in ReadOutcomes : dashboard(o)
    \/ \E o \in ReadOutcomes : get_latest_data(o)
    \/ Finalize
    \/ Tick

Spec == Init /\ [][Next]_vars

SpecFull == InitFull /\ [][Next]_vars

----------------------------------------------------------------------------
(* Properties *)

Posted == route = "/api/data"
PostDone == Posted /\ pc = "idle"
NewestRow == store[Len(store)]
Kinds == [i \in 1..Len(alert_messages) |-> alert_messages[i].kind]
Position(kind) ==
    CASE kind = "High Tilt" -> 1
      [] kind = "High Gas Level" -> 2
      [] kind = "High UV Index" -> 3
      [] kind = "ESP32 Alert Triggered" -> 4
      [] OTHER -> 0
Listed(kind) == \E i \in 1..Len(alert_messages) : Kinds[i] = kind
Finite(f) == data[f].k = "num"
Over(f, limit) == data[f].v > limit
Under(f, limit) == data[f].v < 0 - limit
SameReading(r1, r2) ==
    /\ r1.pitch = r2.pitch
    /\ r1.roll = r2.roll
    /\ r1.gas_level = r2.gas_level
    /\ r1.uv_index = r2.uv_index
    /\ r1.alert = r2.alert

(* C1: the alert value of a persisted reading is the server's decision     *)
(* (true exactly when the list of triggered conditions is non-empty), not  *)
(* the device's alertFlag.                                                 *)
C1_StoredAlertIsServerDecision ==
    (Posted /\ insert = "committed") => (NewestRow.alert <=> alert_messages # <<>>)

(* C2: once the insert has committed, the request ends with 200 and the    *)
(* row stays, whatever the notification channel does.                      *)
C2_NotificationNeverFailsRequest ==
    (PostDone /\ insert = "committed") =>
        (status = 200 /\ store = Append(before, NewestRow))

(* C3: a payload lacking one of pitch, roll, gasLevel, uvIndex is answered *)
(* with 400, leaves the table as it was and makes no notification attempt. *)
C3_MissingFieldRejected ==
    (Posted /\ \E f \in RequiredFields : data[f].k = "none") =>
        /\ pc = "idle"
        /\ status = 400
        /\ store = before
        /\ insert = "none"
        /\ dispatched = 0
        /\ created = 0

C3_Witness ==
    /\ PostDone
    /\ data.pitch.k = "num"
    /\ data.uvIndex.k = "none"
    /\ status = 400

(* C4: a notification attempt is made only after the request's insert has  *)
(* committed; a failed insert ends the request with 500, no row added and  *)
(* no notification attempt.                                                *)
C4_PersistBeforeNotify ==
    /\ (Posted /\ (dispatched > 0 \/ created > 0)) =>
          (insert = "committed" /\ store = Append(before, NewestRow))
    /\ (Posted /\ insert = "failed") =>
          /\ pc = "idle"
          /\ status = 500
          /\ store = before
          /\ dispatched = 0
          /\ created = 0

C4_Witness ==
    /\ PostDone
    /\ insert = "failed"
    /\ alert_messages # <<>>
    /\ status = 500

(* C5: a payload whose required numeric field is present but not a finite  *)
(* number (a string, NaN, Infinity) is answered with 400 and writes no row.*)
C5_NonFiniteRejected ==
    (PostDone /\ \E f \in RequiredFields : data[f].k \in {"str", "nan", "inf"}) =>
        (status = 400 /\ store = before /\ insert = "none")

(* C6: for a valid reading the triggered list holds, in the order tilt,    *)
(* gas, UV, device self-alert, one entry for each rule that holds and none *)
(* for the others; every numeric rule is strict (a value equal to its      *)
(* limit triggers nothing).                                                *)
C6_TriggeredListExact ==
    (Posted /\ \A f \in RequiredFields : Finite(f)) =>
        /\ Listed("High Tilt") <=>
              \/ Over("pitch", TILT_LIMIT) \/ Under("pitch", TILT_LIMIT)
              \/ Over("roll", TILT_LIMIT) \/ Under("roll", TILT_LIMIT)
        /\ Listed("High Gas Level") <=> Over("gasLevel", GAS_LIMIT)
        /\ Listed("High UV Index") <=> Over("uvIndex", UV_LIMIT)
        /\ Listed("ESP32 Alert Triggered") <=> data.alertFlag = Bool(TRUE)
        /\ \A i \in 1..Len(alert_messages) : Position(Kinds[i]) > 0
        /\ \A i, j \in 1..Len(alert_messages) :
              i < j => Position(Kinds[i]) < Position(Kinds[j])

C6_Witness ==
    /\ Posted
    /\ data.pitch = Num(0 - 11)
    /\ data.roll = Num(10)
    /\ data.gasLevel = Num(100)
    /\ data.uvIndex = Num(4)
    /\ Kinds = <<"High Tilt", "High UV Index">>

C8_LatestNeverReportsError ==
    (route = "/api/latest" /\ (store = <<>> \/ read = "failed")) =>
        (rows = <<>> /\ status < 400 /\ store = before)

(* C8, amended: get_latest_data leaves the table unchanged and answers an  *)
(* empty sequence both on an empty table (status 200) and on a failed read *)
(* (status 500); the dashboard answers a failed read with no rows and 200. *)
C8_FailedReadIsEmpty ==
    /\ route = "/api/latest" =>
          /\ store = before
          /\ read = "failed" => (rows = <<>> /\ status = 500)
          /\ (read = "fetched" /\ store = <<>>) => (rows = <<>> /\ status = 200)
    /\ route = "/" =>
          /\ store = before
          /\ status = 200
          /\ (read = "failed" \/ store = <<>>) => rows = <<>>

C8_Witness ==
    /\ route = "/api/latest"
    /\ read = "failed"
    /\ store # <<>>
    /\ rows = <<>>
    /\ status = 500

(* C9: the first reading of the latest-readings answer is the reading      *)
(* inserted last, with the values submitted, also when two consecutive     *)
(* inserts got the same timestamp.                                         *)
C9_NewestFirstIsLastInserted ==
    (route = "/api/latest" /\ read = "fetched" /\ store # <<>>) =>
        (rows # <<>> /\ SameReading(rows[1], NewestRow))

(* C10: a request that used the store has closed its connection by the     *)
(* time it ends; between requests no store connection is open.             *)
C10_NoConnectionOpenBetweenRequests ==
    (pc = "idle" /\ (insert # "none" \/ read # "none")) => OpenConnections = 0

====
